---------------------------- MODULE Spec2Model ----------------------------
(***************************************************************************)
(* Model of the portfolio page controller of js/main.js: the joint GitHub  *)
(* fetch, the view state, the project renderer, the language filter and    *)
(* the resume upload handler.                                              *)
(*                                                                         *)
(* A JavaScript string is modelled as a sequence of one-character strings, *)
(* so that escaping, lower-casing and substring search are computed and    *)
(* not assumed.  null / undefined / "" (all falsy) are the empty sequence. *)
(***************************************************************************)
EXTENDS Integers, Sequences, FiniteSets, TLC

VARIABLES
    initialised,    \* init() has run
    state,          \* the state object: allProjects, currentFilter, isLoading
    container,      \* children of #projectsContainer, as a sequence of elements
    buttons,        \* filter buttons the script has marked active
    fetches,        \* one record per joint fetch started by fetchGitHubData
    stats,          \* the targets last handed to animateNumber by updateStats
    lastOp,         \* history: the handler that ran last and the calls it made
    downloadBtn,    \* #downloadResume: href and download attributes
    uploadStatus,   \* #uploadStatus: text and colour
    urlCount,       \* number of object URLs created so far
    cleanupTimers,  \* object URLs whose 60 s cleanup timeout is pending
    revoked,        \* object URLs that have been revoked
    lastChange,     \* history: the file of the last change event, and the
                    \* download control as it was before that event
    timers,         \* one record per setInterval started by animateNumber
    textContent,    \* the number shown by the animated statistic element
    schedule        \* the running intervals, in the order they fire next

ctrlVars == <<initialised, state, container, buttons, fetches, stats, lastOp>>
uploadVars ==
    <<downloadBtn, uploadStatus, urlCount, cleanupTimers, revoked, lastChange>>
animVars == <<timers, textContent, schedule>>
vars == <<initialised, state, container, buttons, fetches, stats, lastOp,
          downloadBtn, uploadStatus, urlCount, cleanupTimers, revoked,
          lastChange, timers, textContent, schedule>>

-----------------------------------------------------------------------------
(* Bounds of the model *)

MaxListLen == 1     \* every repository list of at most this length is fetched
MaxLong == 13       \* the longest fetched repository list (beyond the cap)
MaxFetches == 2     \* joint fetches started, the one of init() included
MaxUploads == 2     \* accepted file selections
MaxTarget == 4      \* the largest statistic counted up to
MaxTimers == 1      \* count-up animations started on the element

-----------------------------------------------------------------------------
(* Configuration *)

maxProjects == 12
animationDelay == 100

-----------------------------------------------------------------------------
(* Strings *)

Null == << >>

Min(a, b) == IF a < b THEN a ELSE b

LowerChar(c) ==
    CASE c = "J" -> "j" [] c = "S" -> "s" [] c = "T" -> "t" [] c = "U" -> "u"
      [] OTHER -> c

ToLowerCase(s) == [i \in 1..Len(s) |-> LowerChar(s[i])]

\* String.prototype.includes: t occurs in s at some offset
Includes(s, t) ==
    \E i \in 0..(Len(s) - Len(t)) : SubSeq(s, i + 1, i + Len(t)) = t

EscapeChar(c) ==
    CASE c = "&" -> <<"&", "a", "m", "p", ";">>
      [] c = "<" -> <<"&", "l", "t", ";">>
      [] c = ">" -> <<"&", "g", "t", ";">>
      [] OTHER -> <<c>>

RECURSIVE SerializeText(_)
SerializeText(text) ==
    IF text = << >> THEN << >>
    ELSE EscapeChar(Head(text)) \o SerializeText(Tail(text))

\* a detached div: textContent = text, then read innerHTML
EscapeHtml(text) == SerializeText(text)

StrAll == <<"a", "l", "l">>
StrUnknown == <<"U", "n", "k", "n", "o", "w", "n">>
StrNoDescription ==
    <<"N", "o", " ", "d", "e", "s", "c", "r", "i", "p", "t", "i", "o", "n", " ",
      "a", "v", "a", "i", "l", "a", "b", "l", "e">>
StrView == <<"V", "i", "e", "w", " ">>
StrOnGitHub == <<" ", "o", "n", " ", "G", "i", "t", "H", "u", "b">>
StrLiveDemo == <<" ", "l", "i", "v", "e", " ", "d", "e", "m", "o">>
StrFetchFailed ==
    <<"F", "a", "i", "l", "e", "d", " ", "t", "o", " ", "l", "o", "a", "d", " ",
      "G", "i", "t", "H", "u", "b", " ", "d", "a", "t", "a", ".", " ",
      "P", "l", "e", "a", "s", "e", " ", "t", "r", "y", " ", "a", "g", "a", "i", "n", " ",
      "l", "a", "t", "e", "r", ".">>

-----------------------------------------------------------------------------
(* Input domains: what the GitHub API may answer and what the user may do *)

Repo1 ==
    [name |-> <<"a">>, description |-> Null, language |-> Null,
     stargazers_count |-> 3, forks_count |-> 1,
     html_url |-> <<"u", "1">>, homepage |-> Null]
Repo2 ==
    [name |-> <<"<", "b", ">">>, description |-> <<"x", "&", "y">>,
     language |-> <<"J", "s">>, stargazers_count |-> 0, forks_count |-> 2,
     html_url |-> <<"u", "2">>, homepage |-> <<"h", "2">>]
Repo3 ==
    [name |-> <<"c">>, description |-> <<"d">>, language |-> <<"T", "s">>,
     stargazers_count |-> 5, forks_count |-> 0,
     html_url |-> <<"u", "3">>, homepage |-> Null]

Catalog == <<Repo1, Repo2, Repo3>>
Repos == {Catalog[i] : i \in 1..Len(Catalog)}

ShortLists == UNION {[1..n -> Repos] : n \in 0..MaxListLen}
\* lists longer than the display cap: the catalogue repeated in turn
LongList(n) == [i \in 1..n |-> Catalog[((i - 1) % Len(Catalog)) + 1]]
LongLists == {LongList(n) : n \in (maxProjects + 1)..MaxLong}
RepoLists == ShortLists \cup LongLists

Profiles ==
    {[public_repos |-> 0, followers |-> 0], [public_repos |-> 4, followers |-> 7]}

\* data-filter values of the filter buttons
FilterTags == {StrAll, <<"s">>, <<"j", "S">>, <<"p", "y">>}

-----------------------------------------------------------------------------
(* Project renderer *)

\* createProjectCard: the places of the template a value is inserted at
CreateProjectCard(project, index) ==
    LET language == IF project.language # Null THEN project.language ELSE StrUnknown
        description ==
            IF project.description # Null THEN project.description
            ELSE StrNoDescription
        stars == project.stargazers_count
        forks == project.forks_count
    IN  [kind |-> "project-card",
         dataLanguage |-> ToLowerCase(language),
         style |-> [animationDelayMs |-> index * animationDelay,
                    opacity |-> "", animation |-> ""],
         titleText |-> EscapeHtml(project.name),
         descriptionText |-> EscapeHtml(description),
         languageBadge |->
             IF language # StrUnknown THEN <<EscapeHtml(language)>> ELSE << >>,
         starsBadge |-> IF stars > 0 THEN <<stars>> ELSE << >>,
         forksBadge |-> IF forks > 0 THEN <<forks>> ELSE << >>,
         repoHref |-> project.html_url,
         repoAriaLabel |-> StrView \o project.name \o StrOnGitHub,
         demoLink |->
             IF project.homepage # Null
             THEN <<[href |-> project.homepage,
                     ariaLabel |-> StrView \o project.name \o StrLiveDemo]>>
             ELSE << >>]

\* animateProjects: inline style of every .project-card, by position
AnimateProjects(cards) ==
    [k \in 1..Len(cards) |->
        [cards[k] EXCEPT !.style =
            [animationDelayMs |-> (k - 1) * 100, opacity |-> "0",
             animation |-> "fadeInUp"]]]

NoProjectsElement == [kind |-> "no-projects"]
LoadingElement == [kind |-> "loading"]
ErrorElement(message) == [kind |-> "error-message", text |-> EscapeHtml(message)]

\* faulty variant: the slice keeps one entry too many
SliceProjectsOffByOne(projects) ==
    SubSeq(projects, 1, Min(Len(projects), maxProjects + 1))

\* projects.slice(0, CONFIG.maxProjects)
SliceProjects(projects) == SubSeq(projects, 1, Min(Len(projects), maxProjects))

\* faulty variant: no placeholder for an empty input
DisplayProjectsNoPlaceholder(projects) ==
    LET shown == SliceProjects(projects)
    IN  AnimateProjects([k \in 1..Len(shown) |-> CreateProjectCard(shown[k], k - 1)])

\* displayProjects: the new children of the container
DisplayProjects(projects) ==
    IF Len(projects) = 0 THEN <<NoProjectsElement>>
    ELSE LET shown == SliceProjects(projects)
         IN  AnimateProjects([k \in 1..Len(shown) |->
                                 CreateProjectCard(shown[k], k - 1)])

ShowLoading == <<LoadingElement>>
\* faulty variant: the message is added to what the container holds
ShowErrorAppend(message) == Append(container, ErrorElement(message))
ShowError(message) == <<ErrorElement(message)>>

-----------------------------------------------------------------------------
(* Filter engine *)

\* faulty variant: the comparison is case-sensitive
MatchesFilterCaseSensitive(project, filter) ==
    /\ project.language # Null
    /\ Includes(project.language, filter)

\* the predicate of Array.prototype.filter in filterProjects
MatchesFilter(project, filter) ==
    /\ project.language # Null
    /\ Includes(ToLowerCase(project.language), ToLowerCase(filter))

\* faulty variant: "all" is matched against the languages like any other tag
FilteredProjectsNoAll(allProjects, filter) ==
    SelectSeq(allProjects, LAMBDA project : MatchesFilter(project, filter))

FilteredProjects(allProjects, filter) ==
    IF filter # StrAll
    THEN SelectSeq(allProjects, LAMBDA project : MatchesFilter(project, filter))
    ELSE allProjects

-----------------------------------------------------------------------------
(* Statistics aggregator *)

RECURSIVE ReduceSum(_, _, _)
\* Array.prototype.reduce from the left: sum + repo[field], starting from sum
ReduceSum(list, field, sum) ==
    IF list = << >> THEN sum
    ELSE ReduceSum(Tail(list), field, sum + Head(list)[field])

\* faulty variant: the totals are taken over the displayed entries only
UpdateStatsDisplayed(userData, reposData) ==
    [repos |-> userData.public_repos,
     followers |-> userData.followers,
     stars |-> ReduceSum(SliceProjects(reposData), "stargazers_count", 0),
     forks |-> ReduceSum(SliceProjects(reposData), "forks_count", 0)]

\* updateStats: the four targets handed to animateNumber
UpdateStats(userData, reposData) ==
    [repos |-> userData.public_repos,
     followers |-> userData.followers,
     stars |-> ReduceSum(reposData, "stargazers_count", 0),
     forks |-> ReduceSum(reposData, "forks_count", 0)]

-----------------------------------------------------------------------------
(* Joint fetch *)

\* faulty variant: no re-entrancy guard
BusyNever(st) == FALSE

\* the guard of fetchGitHubData
Busy(st) == st.isLoading

\* fetchGitHubUser / fetchGitHubRepos: a non-ok status and a transport error
\* both end in a throw
RequestResult(outcome) == IF outcome = "ok" THEN "ok" ELSE "failed"
Outcomes == {"ok", "httpError", "networkError"}

\* faulty variant: the joint result follows the repositories request alone
PromiseAllIgnoringProfile(promise, user, repos) ==
    IF promise # "pending" THEN promise
    ELSE IF repos = "failed" THEN "rejected"
    ELSE IF repos = "ok" /\ user # "pending" THEN "fulfilled"
    ELSE "pending"

\* Promise.all over the two requests: rejected by the first failure,
\* fulfilled once both have succeeded; a settled promise stays as it is
PromiseAll(promise, user, repos) ==
    IF promise # "pending" THEN promise
    ELSE IF user = "failed" \/ repos = "failed" THEN "rejected"
    ELSE IF user = "ok" /\ repos = "ok" THEN "fulfilled"
    ELSE "pending"

NewFetch ==
    [user |-> "pending", repos |-> "pending", promise |-> "pending",
     before |-> state.allProjects]

InFlight == {i \in 1..Len(fetches) : fetches[i].promise = "pending"}
Outstanding(kind) == {i \in 1..Len(fetches) : fetches[i][kind] = "pending"}

\* history record of a handler run: the calls it made, the argument it handed
\* to displayProjects, and for a failing fetch what state.allProjects was
\* when that fetch began
Op(name, filter, skipped, calls, rendered, fetch, before) ==
    [op |-> name, filter |-> filter, skipped |-> skipped, calls |-> calls,
     rendered |-> rendered, fetch |-> fetch, before |-> before]

\* fetchGitHubData up to its await
BeginFetch(caller) ==
    IF Busy(state)
    THEN /\ lastOp' = Op(caller, Null, TRUE, << >>, << >>, 0, << >>)
         /\ UNCHANGED <<state, container, fetches>>
    ELSE /\ Len(fetches) < MaxFetches
         /\ state' = [state EXCEPT !.isLoading = TRUE]
         /\ container' = ShowLoading
         /\ fetches' = Append(fetches, NewFetch)
         /\ lastOp' = Op(caller, Null, FALSE, <<"showLoading">>, << >>,
                         Len(fetches) + 1, << >>)

\* faulty variant: the busy flag is cleared on success only (no finally)
ResumeFetchNoFinally(i, promise, was) ==
    IF was = "pending" /\ promise = "fulfilled"
    THEN \E userData \in Profiles, reposData \in RepoLists :
            /\ stats' = <<UpdateStats(userData, reposData)>>
            /\ state' = [state EXCEPT !.allProjects = reposData,
                                      !.isLoading = FALSE]
            /\ container' = DisplayProjects(reposData)
            /\ lastOp' = Op("settle", Null, FALSE,
                            <<"updateStats", "displayProjects">>, reposData, i,
                            << >>)
    ELSE IF was = "pending" /\ promise = "rejected"
    THEN /\ container' = ShowError(StrFetchFailed)
         /\ lastOp' = Op("settle", Null, FALSE, <<"showError">>, << >>, i,
                         fetches[i].before)
         /\ UNCHANGED <<state, stats>>
    ELSE /\ lastOp' = Op("settle", Null, FALSE, << >>, << >>, i, << >>)
         /\ UNCHANGED <<state, container, stats>>

\* fetchGitHubData after its await: the try body, the catch and the finally.
\* Nothing reads the body of an answer before Promise.all is fulfilled, so
\* userData and reposData are drawn where they are destructured.
ResumeFetch(i, promise, was) ==
    IF was = "pending" /\ promise = "fulfilled"
    THEN \E userData \in Profiles, reposData \in RepoLists :
            /\ stats' = <<UpdateStats(userData, reposData)>>
            /\ state' = [state EXCEPT !.allProjects = reposData,
                                      !.isLoading = FALSE]
            /\ container' = DisplayProjects(reposData)
            /\ lastOp' = Op("settle", Null, FALSE,
                            <<"updateStats", "displayProjects">>, reposData, i,
                            << >>)
    ELSE IF was = "pending" /\ promise = "rejected"
    THEN /\ state' = [state EXCEPT !.isLoading = FALSE]
         /\ container' = ShowError(StrFetchFailed)
         /\ lastOp' = Op("settle", Null, FALSE, <<"showError">>, << >>, i,
                         fetches[i].before)
         /\ UNCHANGED stats
    ELSE /\ lastOp' = Op("settle", Null, FALSE, << >>, << >>, i, << >>)
         /\ UNCHANGED <<state, container, stats>>

\* one of the two requests of joint fetch i settles
Settle(i, kind, outcome) ==
    LET f0 == fetches[i]
        f1 == [f0 EXCEPT ![kind] = RequestResult(outcome)]
        f2 == [f1 EXCEPT !.promise = PromiseAll(f0.promise, f1.user, f1.repos),
                         !.before = IF f0.promise = "pending"
                                       /\ PromiseAll(f0.promise, f1.user, f1.repos)
                                            = "pending"
                                    THEN @ ELSE << >>]
    IN  /\ ResumeFetch(i, f2.promise, f0.promise)
        /\ fetches' = [fetches EXCEPT ![i] = f2]

-----------------------------------------------------------------------------
(* Handlers of the page controller *)

Init ==
    /\ initialised = FALSE
    /\ state = [allProjects |-> << >>, currentFilter |-> StrAll,
                isLoading |-> FALSE]
    /\ container = << >>
    /\ buttons = {}
    /\ fetches = << >>
    /\ stats = << >>
    /\ lastOp = Op("load", Null, FALSE, << >>, << >>, 0, << >>)
    /\ downloadBtn = [href |-> 0, download |-> ""]
    /\ uploadStatus = [text |-> "", name |-> "", color |-> ""]
    /\ urlCount = 0
    /\ cleanupTimers = {}
    /\ revoked = {}
    /\ lastChange = [file |-> << >>, before |-> [href |-> 0, download |-> ""]]
    /\ timers = << >>
    /\ textContent = -1
    /\ schedule = << >>

\* init() on DOMContentLoaded
InitPage ==
    /\ ~initialised
    /\ initialised' = TRUE
    /\ BeginFetch("init")
    /\ UNCHANGED <<buttons, stats>>
    /\ UNCHANGED uploadVars
    /\ UNCHANGED animVars

\* a further call of the exported fetchGitHubData
FetchGitHubData ==
    /\ initialised
    /\ BeginFetch("fetchGitHubData")
    /\ UNCHANGED <<initialised, buttons, stats>>
    /\ UNCHANGED uploadVars
    /\ UNCHANGED animVars

\* the profile request of joint fetch i settles
UserSettles ==
    \E i \in Outstanding("user"), outcome \in Outcomes :
        /\ Settle(i, "user", outcome)
        /\ UNCHANGED <<initialised, buttons>>
        /\ UNCHANGED uploadVars
        /\ UNCHANGED animVars

\* the repositories request of joint fetch i settles
ReposSettles ==
    \E i \in Outstanding("repos"), outcome \in Outcomes :
        /\ Settle(i, "repos", outcome)
        /\ UNCHANGED <<initialised, buttons>>
        /\ UNCHANGED uploadVars
        /\ UNCHANGED animVars

\* faulty variant: the filtered list is stored as the repository list
FilterProjectsStoring ==
    \E filter \in FilterTags :
        LET filteredProjects == FilteredProjects(state.allProjects, filter)
        IN  /\ initialised
            /\ state' = [state EXCEPT !.currentFilter = filter,
                                      !.allProjects = filteredProjects]
            /\ buttons' = {b \in FilterTags : b = filter}
            /\ container' = DisplayProjects(filteredProjects)
            /\ lastOp' = Op("filterProjects", filter, FALSE,
                            <<"displayProjects">>, filteredProjects, 0, << >>)
            /\ UNCHANGED <<initialised, fetches, stats>>
            /\ UNCHANGED uploadVars
            /\ UNCHANGED animVars

\* faulty variant: selecting the active tag again switches back to "all"
FilterProjectsToggle ==
    \E filter \in FilterTags :
        LET applied == IF state.currentFilter = filter THEN StrAll ELSE filter
            filteredProjects == FilteredProjects(state.allProjects, applied)
        IN  /\ initialised
            /\ state' = [state EXCEPT !.currentFilter = applied]
            /\ buttons' = {b \in FilterTags : b = applied}
            /\ container' = DisplayProjects(filteredProjects)
            /\ lastOp' = Op("filterProjects", filter, FALSE,
                            <<"displayProjects">>, filteredProjects, 0, << >>)
            /\ UNCHANGED <<initialised, fetches, stats>>
            /\ UNCHANGED uploadVars
            /\ UNCHANGED animVars

\* click on a filter button
FilterProjects ==
    \E filter \in FilterTags :
        LET filteredProjects == FilteredProjects(state.allProjects, filter)
        IN  /\ initialised
            /\ state' = [state EXCEPT !.currentFilter = filter]
            /\ buttons' = {b \in FilterTags : b = filter}
            /\ container' = DisplayProjects(filteredProjects)
            /\ lastOp' = Op("filterProjects", filter, FALSE,
                            <<"displayProjects">>, filteredProjects, 0, << >>)
            /\ UNCHANGED <<initialised, fetches, stats>>
            /\ UNCHANGED uploadVars
            /\ UNCHANGED animVars

Next ==
    \/ InitPage
    \/ FetchGitHubData
    \/ UserSettles
    \/ ReposSettles
    \/ FilterProjects

Spec == Init /\ [][Next]_vars

-----------------------------------------------------------------------------
(* Resume upload handler *)

PdfType == "application/pdf"
MaxFileSize == 5 * 1024 * 1024

FileNames == {"cv.pdf", "notes.txt"}
FileTypes == {PdfType, "text/plain", ""}
FileSizes == {0, MaxFileSize - 1, MaxFileSize, MaxFileSize + 1}
Files == [name : FileNames, type : FileTypes, size : FileSizes]

\* faulty variant: a file of exactly the limit is refused
ValidationErrorStrict(file) ==
    IF file.type # PdfType THEN "Please upload a PDF file"
    ELSE IF file.size >= MaxFileSize THEN "File size must be less than 5MB"
    ELSE ""

\* the two validations of the change listener: "" when the file passes
ValidationError(file) ==
    IF file.type # PdfType THEN "Please upload a PDF file"
    ELSE IF file.size > MaxFileSize THEN "File size must be less than 5MB"
    ELSE ""

\* faulty variant: the timeout revokes its URL whatever the control points to
SupersededAlways(url) == TRUE

\* the condition under which the cleanup timeout revokes its URL
Superseded(url) == downloadBtn.href # url

\* change event on #resumeUpload with the file chosen
ResumeChange ==
    \E file \in Files :
        /\ initialised
        /\ lastChange' = [file |-> <<file>>, before |-> downloadBtn]
        /\ IF ValidationError(file) # ""
           THEN /\ uploadStatus' = [text |-> ValidationError(file), name |-> "",
                                    color |-> "#ff6b6b"]
                /\ UNCHANGED <<downloadBtn, urlCount, cleanupTimers>>
           ELSE /\ urlCount < MaxUploads
                /\ urlCount' = urlCount + 1
                /\ downloadBtn' = [href |-> urlCount + 1, download |-> file.name]
                /\ uploadStatus' = [text |-> "Uploaded", name |-> file.name,
                                    color |-> "#43e97b"]
                /\ cleanupTimers' = cleanupTimers \cup {urlCount + 1}
        /\ UNCHANGED revoked
        /\ UNCHANGED ctrlVars
        /\ UNCHANGED animVars

\* change event with no file chosen
ResumeChangeEmpty ==
    /\ initialised
    /\ lastChange' = [file |-> << >>, before |-> downloadBtn]
    /\ UNCHANGED <<downloadBtn, uploadStatus, urlCount, cleanupTimers, revoked>>
    /\ UNCHANGED ctrlVars
    /\ UNCHANGED animVars

\* the 60 s timeout set when url was issued fires
CleanupTimeout ==
    \E url \in cleanupTimers :
        /\ cleanupTimers' = cleanupTimers \ {url}
        /\ revoked' = IF Superseded(url) THEN revoked \cup {url} ELSE revoked
        /\ UNCHANGED <<downloadBtn, uploadStatus, urlCount, lastChange>>
        /\ UNCHANGED ctrlVars
        /\ UNCHANGED animVars

NextUpload ==
    \/ InitPage
    \/ ResumeChange
    \/ ResumeChangeEmpty
    \/ CleanupTimeout

SpecUpload == Init /\ [][NextUpload]_vars

-----------------------------------------------------------------------------
(* Count-up animation *)

steps == 30

Targets == 0..MaxTarget

\* faulty variant: the interval stops only once current exceeds the target
TickOutcomesStrict(targetValue, k) ==
    IF k > steps /\ targetValue > 0
    THEN {[reached |-> TRUE, value |-> targetValue]}
    ELSE {[reached |-> FALSE, value |-> (k * targetValue) \div steps]}

\* The interval callback at its k-th run: current is k additions of
\* targetValue / steps in double arithmetic.  The sum is exact for 0, lies
\* strictly between whole numbers where k * targetValue is no multiple of
\* steps, and may be rounded just below the whole number where it is one:
\* there both roundings are outcomes.  From run steps + 1 on current exceeds
\* the target.
TickOutcomes(targetValue, k) ==
    IF targetValue = 0 \/ k > steps
    THEN {[reached |-> TRUE, value |-> targetValue]}
    ELSE LET whole == (k * targetValue) \div steps
             exact == IF k >= steps
                      THEN [reached |-> TRUE, value |-> targetValue]
                      ELSE [reached |-> FALSE, value |-> whole]
         IN  IF (k * targetValue) % steps = 0
             THEN {exact, [reached |-> FALSE, value |-> whole - 1]}
             ELSE {exact}

\* animateNumber(elementId, targetValue): the interval is started.  Its
\* first run is one period from now, after the next run of every interval
\* already running (all have the same period), so it joins the end of the
\* schedule.  overlaps records whether another interval on the element was
\* still running at the call.
AnimateNumberCall(targetValue) ==
    /\ timers' = Append(timers, [target |-> targetValue, ticks |-> 0,
                                 active |-> TRUE, written |-> -1,
                                 overlaps |-> schedule # << >>])
    /\ schedule' = Append(schedule, Len(timers) + 1)
    /\ UNCHANGED textContent
    /\ UNCHANGED ctrlVars
    /\ UNCHANGED uploadVars

AnimateNumber ==
    \E targetValue \in Targets :
        /\ Len(timers) < MaxTimers
        /\ AnimateNumberCall(targetValue)

\* the interval of timer i fires: intervals of one period run in the order
\* in which they were last scheduled, and an interval that is not cleared is
\* scheduled again behind the others
TimerTick(i) ==
    /\ schedule # << >>
    /\ Head(schedule) = i
    /\ timers[i].active
    /\ LET k == Min(timers[i].ticks + 1, steps + 1)
       IN  \E outcome \in TickOutcomes(timers[i].target, k) :
              /\ textContent' = outcome.value
              /\ timers' = [timers EXCEPT ![i] =
                               [@ EXCEPT !.ticks = k,
                                         !.active = ~outcome.reached,
                                         !.written = outcome.value]]
              /\ schedule' = IF outcome.reached THEN Tail(schedule)
                             ELSE Append(Tail(schedule), i)
    /\ UNCHANGED ctrlVars
    /\ UNCHANGED uploadVars

NextAnim ==
    \/ AnimateNumber
    \/ \E i \in 1..MaxTimers : TimerTick(i)

\* an interval that is not cleared keeps firing
SpecAnim ==
    Init /\ [][NextAnim]_vars /\ \A i \in 1..MaxTimers : WF_vars(TimerTick(i))

\* updateStats of the earlier of two successful fetches animates the
\* statistic element
EarlierStats ==
    \E targetValue \in Targets :
        /\ timers = << >>
        /\ AnimateNumberCall(targetValue)

\* updateStats of the later successful fetch animates the same element,
\* whether or not the earlier interval is still running
LaterStats ==
    \E targetValue \in Targets :
        /\ Len(timers) = 1
        /\ AnimateNumberCall(targetValue)

NextOverlap ==
    \/ EarlierStats
    \/ LaterStats
    \/ \E i \in 1..2 : TimerTick(i)

SpecOverlap == Init /\ [][NextOverlap]_vars

-----------------------------------------------------------------------------
(* Properties *)

Displayed == \E k \in 1..Len(lastOp.calls) : lastOp.calls[k] = "displayProjects"
StatsUpdated == \E k \in 1..Len(lastOp.calls) : lastOp.calls[k] = "updateStats"
Failed(f) == f.user = "failed" \/ f.repos = "failed"
\* the handler that ran last is the continuation of a joint fetch
RunEnded == lastOp.op = "settle" /\ lastOp.calls # << >>

\* C1: joint-fetch atomicity.  A joint fetch one of whose requests has failed
\* is rejected, never fulfilled; the step that ends such a run renders the
\* error message, leaves state.allProjects what it was when the run began
\* (empty if no run has succeeded yet) and calls neither updateStats nor
\* displayProjects.
JointFetchAtomicity ==
    /\ \A i \in 1..Len(fetches) : Failed(fetches[i]) => fetches[i].promise = "rejected"
    /\ (RunEnded /\ Failed(fetches[lastOp.fetch])) =>
          /\ Len(container) = 1
          /\ container[1].kind = "error-message"
          /\ state.allProjects = lastOp.before
          /\ ~Displayed
          /\ ~StatsUpdated
          /\ ~state.isLoading
    /\ (\A i \in 1..Len(fetches) : fetches[i].promise # "fulfilled") =>
          state.allProjects = << >>

\* C1 witness: the profile request succeeded, the repositories request
\* failed, and the run has just ended over the list of an earlier success
JointFetchAtomicityWitness ==
    /\ RunEnded
    /\ fetches[lastOp.fetch].user = "ok"
    /\ fetches[lastOp.fetch].repos = "failed"
    /\ state.allProjects # << >>

\* t occurs in s: s is a prefix, then t, then a suffix
OccursIn(t, s) ==
    \E a \in 0..Len(s) :
        /\ a + Len(t) <= Len(s)
        /\ \A j \in 1..Len(t) : s[a + j] = t[j]

\* positions of L whose language is present and contains tag, ignoring case
MatchingPositions(L, tag) ==
    {i \in 1..Len(L) :
        /\ L[i].language # Null
        /\ OccursIn(ToLowerCase(tag), ToLowerCase(L[i].language))}

\* the entries of L at the positions P, in the order of L
SubsequenceAt(L, P) ==
    [k \in 1..Cardinality(P) |->
        L[CHOOSE i \in P : Cardinality({j \in P : j < i}) = k - 1]]

\* C2: for a tag other than "all", filterProjects hands the renderer exactly
\* the order-preserving subsequence of the stored list whose language is
\* present and contains the tag case-insensitively; no entry without a
\* language is in it.
SubstringFilter ==
    (lastOp.op = "filterProjects" /\ lastOp.filter # StrAll) =>
        /\ lastOp.rendered =
              SubsequenceAt(state.allProjects,
                            MatchingPositions(state.allProjects, lastOp.filter))
        /\ \A k \in 1..Len(lastOp.rendered) : lastOp.rendered[k].language # Null

\* C2 witness: a tag differing in case from the language it selects, over a
\* list with several matches, a non-matching language and an absent language
SubstringFilterWitness ==
    /\ lastOp.op = "filterProjects"
    /\ lastOp.filter = <<"j", "S">>
    /\ Len(lastOp.rendered) >= 2
    /\ \E i \in 1..Len(state.allProjects) : state.allProjects[i].language = Null
    /\ \E i \in 1..Len(state.allProjects) :
          state.allProjects[i].language = <<"T", "s">>

\* C3: filterProjects("all") hands the renderer the stored list itself.
FilterIdentity ==
    (lastOp.op = "filterProjects" /\ lastOp.filter = StrAll) =>
        lastOp.rendered = state.allProjects

\* C3 witness: "all" selected over a stored list holding an entry without
\* language
FilterIdentityWitness ==
    /\ lastOp.op = "filterProjects"
    /\ lastOp.filter = StrAll
    /\ \E i \in 1..Len(state.allProjects) : state.allProjects[i].language = Null
    /\ Len(state.allProjects) >= 2

\* card without the inline style animateProjects sets
Markup(card) == [card EXCEPT !.style = [animationDelayMs |-> 0, opacity |-> "",
                                        animation |-> ""]]

\* C4: for a non-empty input displayProjects produces min(length, 12) cards,
\* card i built from entry i with position index i.
DisplayCap ==
    (Displayed /\ lastOp.rendered # << >>) =>
        /\ Len(container) = Min(Len(lastOp.rendered), 12)
        /\ \A k \in 1..Len(container) :
              /\ container[k].kind = "project-card"
              /\ Markup(container[k]) = Markup(CreateProjectCard(lastOp.rendered[k], k - 1))
              /\ container[k].style.animationDelayMs = (k - 1) * 100

\* C4 witness: an input of more than 12 entries has been displayed
DisplayCapWitness ==
    /\ Displayed
    /\ Len(lastOp.rendered) > 12
    /\ Len(container) = 12

\* the texts createProjectCard takes from the repository
LanguageOf(project) == IF project.language # Null THEN project.language ELSE StrUnknown
DescriptionOf(project) ==
    IF project.description # Null THEN project.description ELSE StrNoDescription

\* C5: every place of a card where the name, the description or the language
\* of the repository is inserted (element text and attribute values alike)
\* carries the HTML-escaped form of that text.
EscapedEverywhere ==
    (Displayed /\ lastOp.rendered # << >>) =>
        \A k \in 1..Len(container) :
            LET project == lastOp.rendered[k]
                card == container[k]
            IN  /\ card.titleText = EscapeHtml(project.name)
                /\ card.descriptionText = EscapeHtml(DescriptionOf(project))
                /\ \A b \in 1..Len(card.languageBadge) :
                      card.languageBadge[b] = EscapeHtml(LanguageOf(project))
                /\ card.dataLanguage = EscapeHtml(ToLowerCase(LanguageOf(project)))
                /\ card.repoAriaLabel =
                      StrView \o EscapeHtml(project.name) \o StrOnGitHub
                /\ \A d \in 1..Len(card.demoLink) :
                      card.demoLink[d].ariaLabel =
                          StrView \o EscapeHtml(project.name) \o StrLiveDemo

RECURSIVE TotalOf(_, _, _)
\* the sum of L[1][field] .. L[n][field], taken from the last entry down
TotalOf(L, field, n) == IF n = 0 THEN 0 ELSE L[n][field] + TotalOf(L, field, n - 1)

\* C6: the star and fork totals handed to the count-up display are the sums
\* over the whole fetched sequence, which is the stored one, and stay so
\* under every later filter selection.
AggregateStats ==
    /\ stats # << >> =>
          /\ stats[1].stars =
                TotalOf(state.allProjects, "stargazers_count", Len(state.allProjects))
          /\ stats[1].forks =
                TotalOf(state.allProjects, "forks_count", Len(state.allProjects))
    /\ stats = << >> => state.allProjects = << >>

\* C6 witness: totals of a fetched list longer than the display cap, after a
\* filter selection that shows only a part of it
AggregateStatsWitness ==
    /\ stats # << >>
    /\ Len(state.allProjects) > 12
    /\ lastOp.op = "filterProjects"
    /\ Len(lastOp.rendered) \in 1..11
    /\ stats[1].stars > 0

\* C7: a call of fetchGitHubData made while state.isLoading is true issues no
\* request, renders nothing and changes no state; hence at most one joint
\* fetch is in progress at any time.
BusyGuard ==
    /\ [](Cardinality(InFlight) <= 1)
    /\ [][(state.isLoading /\ lastOp'.op = "fetchGitHubData") =>
              UNCHANGED <<state, container, fetches, stats, buttons>>]_vars

\* C7 witness: fetchGitHubData has just been called during a joint fetch
BusyGuardWitness ==
    /\ lastOp.op = "fetchGitHubData"
    /\ lastOp.skipped
    /\ state.isLoading
    /\ Cardinality(InFlight) = 1

RenderState(element) ==
    CASE element.kind = "loading" -> "loading"
      [] element.kind = "error-message" -> "error"
      [] element.kind \in {"project-card", "no-projects"} -> "projects"

\* C8: once initialised, the container holds exactly one of the three render
\* states: the loading placeholder alone, the error message alone, or the
\* cards (or the no-projects placeholder alone).
RenderExclusive ==
    initialised =>
        /\ Len(container) >= 1
        /\ \A k \in 1..Len(container) :
              /\ RenderState(container[k]) = RenderState(container[1])
              /\ container[k].kind # "project-card" => Len(container) = 1

\* C8 witness: the error message of a failed fetch has replaced the cards of
\* an earlier one
RenderExclusiveWitness ==
    /\ initialised
    /\ container[1].kind = "error-message"
    /\ Len(state.allProjects) >= 1
    /\ Len(fetches) >= 2

\* C9: whenever displayProjects receives an empty sequence the container
\* holds the single no-projects placeholder and no card.
EmptyPlaceholder ==
    (Displayed /\ lastOp.rendered = << >>) =>
        /\ Len(container) = 1
        /\ container[1].kind = "no-projects"

\* C9 witness: a filter that matches nothing in a non-empty stored list
EmptyPlaceholderWitness ==
    /\ lastOp.op = "filterProjects"
    /\ lastOp.rendered = << >>
    /\ state.allProjects # << >>

\* C10: a selected file is accepted, and a new download handle bound to its
\* name issued, iff its type is application/pdf and its size is at most
\* 5*1024*1024 bytes; every rejection reports a validation message and
\* leaves the download handle as it was.
UploadValidation ==
    lastChange.file # << >> =>
        LET file == lastChange.file[1]
        IN  IF file.type = "application/pdf" /\ file.size <= 5242880
            THEN /\ downloadBtn.href = urlCount
                 /\ downloadBtn.href # lastChange.before.href
                 /\ downloadBtn.download = file.name
                 /\ uploadStatus.name = file.name
            ELSE /\ downloadBtn = lastChange.before
                 /\ uploadStatus.text # ""
                 /\ uploadStatus.text # "Uploaded"
                 /\ uploadStatus.color = "#ff6b6b"

\* C10 witness: a PDF of 5 MiB + 1 byte was refused after an earlier file
\* had been accepted
UploadValidationWitness ==
    /\ lastChange.file # << >>
    /\ lastChange.file[1].type = "application/pdf"
    /\ lastChange.file[1].size = 5242881
    /\ lastChange.before.href # 0
    /\ downloadBtn = lastChange.before

NoSuccessYet == \A i \in 1..Len(fetches) : fetches[i].promise # "fulfilled"
SomeFailure == \E i \in 1..Len(fetches) : fetches[i].promise = "rejected"

\* C11: when a fetch fails with no earlier success, its failure handler
\* leaves state.isLoading false and state.allProjects empty and a filter
\* selection is possible; every filter selection after such a failure
\* completes on the empty repository list: it renders the no-projects
\* placeholder and stores the selected tag as the active filter.
DegradedButInteractive ==
    /\ (RunEnded /\ Failed(fetches[lastOp.fetch]) /\ NoSuccessYet) =>
          /\ ~state.isLoading
          /\ state.allProjects = << >>
          /\ ENABLED FilterProjects
    /\ (NoSuccessYet /\ SomeFailure /\ lastOp.op = "filterProjects") =>
          /\ lastOp.rendered = << >>
          /\ Len(container) = 1
          /\ container[1].kind = "no-projects"
          /\ state.currentFilter = lastOp.filter
          /\ ~state.isLoading \/ InFlight # {}

\* C11 witness: a filter other than "all" selected after the only fetch failed
DegradedButInteractiveWitness ==
    /\ NoSuccessYet
    /\ SomeFailure
    /\ InFlight = {}
    /\ lastOp.op = "filterProjects"
    /\ lastOp.filter = <<"s">>
    /\ state.currentFilter = <<"s">>

\* the handler that ran last is the success continuation of a joint fetch
FetchSucceeded == lastOp.op = "settle" /\ StatsUpdated

\* C12: every successful fetch completion replaces the stored repositories by
\* the fetched list, renders that list unfiltered (capped), and leaves the
\* active filter equal to "all".
FetchResetsFilter ==
    FetchSucceeded =>
        /\ state.allProjects = lastOp.rendered
        /\ Len(container) = IF lastOp.rendered = << >> THEN 1
                            ELSE Min(Len(lastOp.rendered), 12)
        /\ state.currentFilter = StrAll

\* C13: a filter selection changes only state.currentFilter, the active
\* marking of the buttons and the container; state.allProjects,
\* state.isLoading and the statistics stay as they are and no request is
\* issued, whether or not a fetch is in flight.
FilterFrame ==
    [][lastOp'.op = "filterProjects" =>
          /\ state'.allProjects = state.allProjects
          /\ state'.isLoading = state.isLoading
          /\ stats' = stats
          /\ fetches' = fetches
          /\ initialised' = initialised]_vars

\* C13 witness: a tag selected during a joint fetch that follows a success
FilterFrameWitness ==
    /\ lastOp.op = "filterProjects"
    /\ lastOp.filter = <<"s">>
    /\ state.isLoading
    /\ InFlight # {}
    /\ stats # << >>
    /\ Len(lastOp.rendered) < Len(state.allProjects)

\* C16: filterProjects invoked twice in a row with the same tag yields the
\* same rendered batch and the same state after the second call as after the
\* first.
FilterIdempotent ==
    [][(/\ lastOp.op = "filterProjects"
        /\ lastOp'.op = "filterProjects"
        /\ lastOp'.filter = lastOp.filter) =>
          /\ lastOp'.rendered = lastOp.rendered
          /\ container' = container
          /\ state' = state
          /\ buttons' = buttons
          /\ UNCHANGED <<fetches, stats>>]_vars

\* C16 witness: a tag with a proper, non-empty selection is the active filter
\* and was selected last; selecting it again from here is the second call
FilterIdempotentWitness ==
    /\ lastOp.op = "filterProjects"
    /\ lastOp.filter = <<"j", "S">>
    /\ state.currentFilter = lastOp.filter
    /\ buttons = {lastOp.filter}
    /\ Len(lastOp.rendered) >= 1
    /\ Len(lastOp.rendered) < Len(state.allProjects)
    /\ ENABLED FilterProjects

\* the stored repositories filtered by the stored active filter
StoredBatch ==
    SubsequenceAt(state.allProjects,
                  IF state.currentFilter = StrAll THEN 1..Len(state.allProjects)
                  ELSE MatchingPositions(state.allProjects, state.currentFilter))

\* the container shows the first 12 entries of batch
Shows(batch) ==
    /\ batch = << >> => Len(container) = 1 /\ container[1].kind = "no-projects"
    /\ batch # << >> =>
          /\ Len(container) = Min(Len(batch), 12)
          /\ \A k \in 1..Len(container) :
                /\ container[k].kind = "project-card"
                /\ Markup(container[k]) = Markup(CreateProjectCard(batch[k], k - 1))

\* C17: whenever the container shows cards or the no-projects placeholder,
\* what it shows is the first 12 entries of the stored repositories filtered
\* by the stored active filter.
ViewConsistent ==
    (initialised /\ RenderState(container[1]) = "projects") => Shows(StoredBatch)

\* C18: at any time at most one profile request and at most one repositories
\* request are outstanding.
RequestsExclusive ==
    /\ Cardinality(Outstanding("user")) <= 1
    /\ Cardinality(Outstanding("repos")) <= 1

\* C19 as claimed: whenever state.isLoading is true the container shows the
\* loading placeholder, and state.isLoading is false once the joint fetch has
\* settled.
LoadingShownWhileLoading ==
    initialised =>
        /\ state.isLoading => container = <<[kind |-> "loading"]>>
        /\ InFlight = {} => ~state.isLoading

\* C19 as amended: state.isLoading is true exactly while a joint fetch is
\* pending; while it is true the container shows the loading placeholder or,
\* once a filter has been selected during the fetch, the batch of the stored
\* repositories under the stored active filter, and never the error message.
LoadingFlagTracksFetch ==
    initialised =>
        /\ state.isLoading <=> InFlight # {}
        /\ state.isLoading =>
              \/ container = <<[kind |-> "loading"]>>
              \/ RenderState(container[1]) = "projects" /\ Shows(StoredBatch)

\* C19 witness: during a joint fetch a filter selection has put cards where
\* the loading placeholder was
LoadingFlagTracksFetchWitness ==
    /\ state.isLoading
    /\ InFlight # {}
    /\ container[1].kind = "project-card"
    /\ state.currentFilter # StrAll

\* object URLs issued earlier that the download control no longer points to
SupersededUrls == {url \in 1..urlCount : url # downloadBtn.href}

\* C15: every download handle superseded by a newer accepted selection is
\* eventually revoked, however long after its issuance it is superseded.
\* Only the handle's own cleanup timeout revokes it, so a superseded handle
\* is revoked already or its timeout is still to fire.
SupersededReclaimed ==
    \A url \in SupersededUrls : url \in revoked \/ url \in cleanupTimers

\* C20: the object URL the download control points to is never revoked; a
\* cleanup timeout revokes only a URL the control no longer points to.
LiveHandleSafe ==
    /\ downloadBtn.href \notin revoked
    /\ revoked \subseteq SupersededUrls

\* C20 witness: the timeout of the current URL has fired without revoking
\* it, after the timeout of a superseded URL had revoked that one
LiveHandleSafeWitness ==
    /\ downloadBtn.href >= 1
    /\ downloadBtn.href \notin cleanupTimers
    /\ revoked # {}
    /\ cleanupTimers = {}

\* C14: for every non-negative integer target the interval started by
\* animateNumber eventually writes exactly the target and clears itself at
\* that tick, after which it never writes again; what it writes before is a
\* whole number of at most the target; target 0 ends on the first tick.
CountUpTerminates ==
    /\ [](\A i \in 1..Len(timers) :
             /\ timers[i].written \in -1..timers[i].target
             /\ timers[i].ticks >= 1 => timers[i].written >= 0
             /\ ~timers[i].active => timers[i].written = timers[i].target
             /\ (timers[i].target = 0 /\ timers[i].ticks >= 1) => ~timers[i].active)
    /\ [][\A i \in 1..Len(timers) :
             ~timers[i].active => timers'[i] = timers[i]]_vars
    /\ \A i \in 1..MaxTimers :
          (Len(timers) >= i) ~>
              (/\ Len(timers) >= i
               /\ ~timers[i].active
               /\ timers[i].written = timers[i].target)

\* C14 witness: an interval has ended on its target one tick late, having
\* shown less than the target at tick 30
CountUpTerminatesWitness ==
    \E i \in 1..Len(timers) :
        /\ ~timers[i].active
        /\ timers[i].target >= 1
        /\ timers[i].ticks = 31
        /\ timers[i].written = timers[i].target

\* C21: when the count-up of a later successful fetch was started while the
\* count-up of the earlier one was still running on the same element, then
\* once both intervals have stopped the element shows the later target.
FreshStatistic ==
    (/\ Len(timers) = 2
     /\ timers[2].overlaps
     /\ schedule = << >>) => textContent = timers[2].target

=============================================================================
